---- MODULE Spec2Model ----
(***************************************************************************)
(* Model of the two scripts of the repository:                             *)
(*   update_vocabulary.py          seen-word count, day streak, README     *)
(*                                 badges, main                            *)
(*   youtube_duration_calculator.py  extract_video_id, get_video_duration, *)
(*                                 calculate_total_duration                *)
(* The scripts share no state; each has its own specification over the     *)
(* variables it uses (SpecStreak, SpecBadge, SpecMain, SpecParser,         *)
(* SpecAgg), the other variables staying at their initial values.          *)
(***************************************************************************)
EXTENDS Integers, Sequences, FiniteSets, TLC

VARIABLES
    \* get_current_streak
    activity,          \* days (ordinals) that have a row in revlog
    today,             \* datetime.now().date(), as an ordinal
    rows,              \* result of the query: date strings, descending
    streak,            \* value returned by get_current_streak
    spc,               \* position in get_current_streak
    \* update_readme_badge
    content,           \* text of README.md, a sequence of tokens
    lastArgs,          \* <<word_count, streak>> of the last call
    napplied,          \* number of calls of update_readme_badge so far
    before,            \* history: README.md as the last call read it
    repeated,          \* history: the last call had the arguments of the
                       \* call before it
    \* main of update_vocabulary
    mpc,               \* position in main
    ret,               \* value returned by main
    word_count,        \* value returned by get_seen_words_count
    opens,             \* number of Collection(...) constructed
    closes,            \* number of col.close() executed
    failure,           \* the exception raised inside main's try, or "none"
    faults,            \* history: what the environment refused so far
    readme0,           \* README.md before main ran
    \* extract_video_id
    url,               \* the argument
    video_id,          \* the value returned: [found, id], found FALSE for None
    ppc,               \* position in extract_video_id
    \* calculate_total_duration
    csvRows,           \* the value of the URL field of each CSV row
    urls,              \* the list built at line 82
    idx,               \* number of list elements the loop has consumed
    total_seconds,
    video_count,
    successful_count,
    lookups,           \* history: <<url, outcome>> of every lookup, in order
    summarised,        \* the summary lines 110-118 have been printed
    apc                \* position in calculate_total_duration

streakVars == <<activity, today, rows, streak, spc>>
badgeVars  == <<content, lastArgs, napplied, before, repeated>>
mainVars   == <<mpc, ret, word_count, opens, closes, failure, faults,
                readme0>>
parserVars == <<url, video_id, ppc>>
aggVars    == <<csvRows, urls, idx, total_seconds, video_count,
                successful_count, lookups, summarised, apc>>
vars == <<streakVars, badgeVars, mainVars, parserVars, aggVars>>

Min(a, b) == IF a < b THEN a ELSE b

(***************************************************************************)
(* Bounds                                                                  *)
(***************************************************************************)
MaxDay == 4          \* days of the calendar window are 0..MaxDay
MaxDocLen == 4       \* tokens of the README before the script runs
MaxApplied == 2      \* calls of update_readme_badge in one behaviour
MaxUrlLen == 4       \* tokens of the argument of extract_video_id
MaxRows == 3         \* rows of the CSV file
MaxDur == 2          \* largest duration a lookup returns
MaxCards == 2        \* cards of the deck

(***************************************************************************)
(* Idle values of the variables a specification does not use               *)
(***************************************************************************)
StreakIdle ==
    /\ activity = {} /\ today = 0 /\ rows = <<>> /\ streak = 0 /\ spc = "idle"
BadgeIdle ==
    /\ content = <<>> /\ lastArgs = <<0, 0>> /\ napplied = 0
    /\ before = <<>> /\ repeated = FALSE
MainIdle ==
    /\ mpc = "idle" /\ ret = -1 /\ word_count = 0 /\ opens = 0 /\ closes = 0
    /\ failure = "none" /\ faults = {} /\ readme0 = <<>>
ParserIdle ==
    /\ url = <<>> /\ video_id = [found |-> FALSE, id |-> <<>>] /\ ppc = "idle"
AggIdle ==
    /\ csvRows = <<>> /\ urls = <<>> /\ idx = 0 /\ total_seconds = 0
    /\ video_count = 0 /\ successful_count = 0 /\ lookups = <<>>
    /\ summarised = FALSE /\ apc = "idle"

(***************************************************************************)
(* get_current_streak (update_vocabulary.py 38-76)                         *)
(*                                                                         *)
(* Days are ordinals 0..MaxDay of a calendar window that starts on         *)
(* 2023-12-30, so that it crosses a month and a year boundary.  A date     *)
(* string 'YYYY-MM-DD' is the tuple <<year, month, day>>.                  *)
(***************************************************************************)
Days == 0..MaxDay

\* date(id/1000, 'unixepoch', 'localtime') of the query: ordinal -> string
SqlDate(o) == IF o <= 1 THEN <<2023, 12, 30 + o>> ELSE <<2024, 1, o - 1>>

\* datetime.strptime(date_str, '%Y-%m-%d').date(): string -> ordinal
Strptime(s) == IF s[1] = 2023 THEN s[3] - 30 ELSE s[3] + 1

\* order of the strings 'YYYY-MM-DD' under ORDER BY: field by field
StrLess(a, b) ==
    \/ a[1] < b[1]
    \/ a[1] = b[1] /\ a[2] < b[2]
    \/ a[1] = b[1] /\ a[2] = b[2] /\ a[3] < b[3]

RECURSIVE OrderByDesc(_)
OrderByDesc(S) ==
    IF S = {} THEN <<>>
    ELSE LET m == CHOOSE x \in S : \A y \in S : y = x \/ StrLess(y, x)
         IN  <<m>> \o OrderByDesc(S \ {m})

\* SELECT DISTINCT date(...) FROM revlog ORDER BY review_date DESC
RevlogQuery(act) == OrderByDesc({SqlDate(o) : o \in act})

\* ExpectedDate with an off-by-one fault: the walk starts at yesterday
ExpectedDateFromYesterday(tdy, i) == tdy - (i + 1)

\* expected_date = today - timedelta(days=i)
ExpectedDate(tdy, i) == tdy - i

\* the for loop of lines 67-74, entered at index i (0-based) with the
\* streak counted so far
RECURSIVE StreakWalk(_, _, _, _)
StreakWalk(rws, tdy, i, sofar) ==
    IF i >= Len(rws) THEN sofar
    ELSE IF Strptime(rws[i + 1]) = ExpectedDate(tdy, i)
         THEN StreakWalk(rws, tdy, i + 1, sofar + 1)
         ELSE sofar

\* lines 60-76
StreakOf(rws, tdy) == IF rws = <<>> THEN 0 ELSE StreakWalk(rws, tdy, 0, 0)

InitStreak ==
    /\ activity \in SUBSET Days
    /\ today \in Days
    /\ rows = <<>> /\ streak = 0 /\ spc = "start"
    /\ BadgeIdle /\ MainIdle /\ ParserIdle /\ AggIdle

\* lines 48-58: open, query, close
StreakQuery ==
    /\ spc = "start"
    /\ rows' = RevlogQuery(activity)
    /\ spc' = "queried"
    /\ UNCHANGED <<activity, today, streak>>
    /\ UNCHANGED <<badgeVars, mainVars, parserVars, aggVars>>

\* lines 60-76
StreakCount ==
    /\ spc = "queried"
    /\ streak' = StreakOf(rows, today)
    /\ spc' = "done"
    /\ UNCHANGED <<activity, today, rows>>
    /\ UNCHANGED <<badgeVars, mainVars, parserVars, aggVars>>

NextStreak == StreakQuery \/ StreakCount

SpecStreak == InitStreak /\ [][NextStreak]_vars

\* the largest n such that today, today-1, ..., today-(n-1) are all active
RECURSIVE RunEndingAt(_, _)
RunEndingAt(act, d) == IF d \in act THEN 1 + RunEndingAt(act, d - 1) ELSE 0

\* C1: for every set of distinct activity dates, dates later than today
\* included, the streak returned is the largest n such that today,
\* today-1, ..., today-(n-1) are all in the set.
C1_StreakIsRunEndingToday ==
    spc = "done" => streak = RunEndingAt(activity, today)

\* C2: if today's date is not in the activity set, empty or not, the streak
\* returned is 0.
C2_TodayAbsentGivesZero ==
    (spc = "done" /\ today \notin activity) => streak = 0

C2_Witness ==
    /\ spc = "done"
    /\ today \notin activity
    /\ today - 1 \in activity
    /\ streak = 0

(***************************************************************************)
(* update_readme_badge (update_vocabulary.py 79-115)                       *)
(*                                                                         *)
(* README.md is a sequence of tokens.  A token is a newline, a piece of    *)
(* text, or a whole badge; what the two regular expressions and the        *)
(* substring test of line 110 can tell apart is kept:                      *)
(*   nl     the character '\n'                                             *)
(*   txt    text with no '![' and neither of the two label texts           *)
(*   kw     text with no '![' that contains 'Anki Chinese Cards' or the    *)
(*          Chinese label (a heading, say)                                 *)
(*   open   text that starts with '![' and is not a badge                  *)
(*   vocab  '![<alt>](https://img.shields.io/badge/<label>-<val>-blue)'    *)
(*          with <label> one of the two labels vocab_pattern accepts:      *)
(*          "acc" is Anki%20Chinese%20Cards, "cjk" the Chinese label       *)
(*   streak '![Day Streak](https://img.shields.io/badge/Day%20Streak-      *)
(*          <val>-orange)'                                                 *)
(***************************************************************************)
Tok(k, a, l, v) == [kind |-> k, alt |-> a, label |-> l, val |-> v]

NL == Tok("nl", "-", "-", 0)
Txt == Tok("txt", "-", "-", 0)
Kw == Tok("kw", "-", "-", 0)
Open == Tok("open", "-", "-", 0)

\* vocab_badge_markdown, lines 84-85
VocabBadge(wc) == Tok("vocab", "Anki Chinese Cards", "acc", wc)

\* streak_badge_markdown, lines 87-88
StreakBadge(st) == Tok("streak", "Day Streak", "-", st)

\* values the two counters take
WordCounts == {100, 150}
Streaks == {0, 3}

\* what may stand in README.md before the script runs
Alphabet ==
    { NL, Txt, Kw, Open, VocabBadge(100),
      Tok("vocab", "Vocab", "acc", 100), Tok("vocab", "Vocab", "cjk", 100),
      StreakBadge(0) }

\* the token holds the two characters '![' 
HasBang(t) == t.kind \in {"open", "vocab", "streak"}

\* 'Anki Chinese Cards' in line or the Chinese label in line, for one token
\* (line 110); the URL of a badge holds Anki%20Chinese%20Cards, which is
\* not the text 'Anki Chinese Cards'
HasLabelText(t) ==
    \/ t.kind = "kw"
    \/ t.kind = "vocab" /\ (t.alt = "Anki Chinese Cards" \/ t.label = "cjk")

\* content.split('\n')
RECURSIVE SplitLines(_)
SplitLines(c) ==
    IF \A i \in 1..Len(c) : c[i] # NL THEN <<c>>
    ELSE LET p == CHOOSE i \in 1..Len(c) :
                      c[i] = NL /\ \A j \in 1..(i - 1) : c[j] # NL
         IN  <<SubSeq(c, 1, p - 1)>> \o SplitLines(SubSeq(c, p + 1, Len(c)))

\* '\n'.join(lines)
RECURSIVE JoinLines(_)
JoinLines(ls) ==
    IF Len(ls) = 0 THEN <<>>
    ELSE IF Len(ls) = 1 THEN ls[1]
    ELSE ls[1] \o <<NL>> \o JoinLines(Tail(ls))

\* list.insert(i, x), i counted from 0; an index past the end appends
ListInsert(ls, i, x) ==
    LET k == Min(i, Len(ls))
    IN  SubSeq(ls, 1, k) \o <<x>> \o SubSeq(ls, k + 1, Len(ls))

\* re.search(vocab_pattern, content), line 95
SearchVocab(c) == \E i \in 1..Len(c) : c[i].kind = "vocab"

\* re.sub(vocab_pattern, vocab_badge_markdown, content), line 96.
\* The pattern starts with '!\[.*?\]': a match starts at the leftmost '!['
\* of the line from which a vocabulary badge tail can still be reached and
\* ends at the first such tail ('.' does not match '\n').  out is the text
\* already settled, held the text from the leftmost '![' on.
RECURSIVE SubVocabFrom(_, _, _, _, _)
SubVocabFrom(c, i, out, held, wc) ==
    IF i > Len(c) THEN out \o held
    ELSE LET t == c[i] IN
         IF t.kind = "vocab"
         THEN SubVocabFrom(c, i + 1, out \o <<VocabBadge(wc)>>, <<>>, wc)
         ELSE IF t = NL
         THEN SubVocabFrom(c, i + 1, out \o held \o <<NL>>, <<>>, wc)
         ELSE IF HasBang(t) \/ held # <<>>
         THEN SubVocabFrom(c, i + 1, out, held \o <<t>>, wc)
         ELSE SubVocabFrom(c, i + 1, out \o <<t>>, <<>>, wc)

SubVocab(c, wc) == SubVocabFrom(c, 1, <<>>, <<>>, wc)

\* lines 98-101: no vocabulary badge yet
InsertVocab(c, wc) ==
    JoinLines(ListInsert(ListInsert(SplitLines(c), 1, <<>>), 2,
                         <<VocabBadge(wc)>>))

\* SearchStreak with a faulty pattern: it never matches
SearchStreakNever(c) == FALSE

\* re.search(streak_pattern, content), line 104
SearchStreak(c) == \E i \in 1..Len(c) : c[i].kind = "streak"

\* re.sub(streak_pattern, streak_badge_markdown, content), line 105
SubStreak(c, st) ==
    [i \in 1..Len(c) |-> IF c[i].kind = "streak" THEN StreakBadge(st) ELSE c[i]]

\* the test of line 110 on one line
LineHasLabelText(ln) == \E j \in 1..Len(ln) : HasLabelText(ln[j])

\* lines 107-113: no streak badge yet
InsertStreak(c, st) ==
    LET ls == SplitLines(c)
        hits == {i \in 1..Len(ls) : LineHasLabelText(ls[i])}
    IN  IF hits = {} THEN JoinLines(ls)
        ELSE LET i == CHOOSE h \in hits : \A g \in hits : h <= g
             IN  JoinLines(ListInsert(ls, i, <<StreakBadge(st)>>))

\* lines 94-101
UpdateVocab(c, wc) ==
    IF SearchVocab(c) THEN SubVocab(c, wc) ELSE InsertVocab(c, wc)

\* lines 103-113
UpdateStreak(c, st) ==
    IF SearchStreak(c) THEN SubStreak(c, st) ELSE InsertStreak(c, st)

\* the text written at line 115 for the text read at line 81
UpdatedReadme(c, wc, st) == UpdateStreak(UpdateVocab(c, wc), st)


InitBadge ==
    /\ BadgeIdle
    /\ StreakIdle /\ MainIdle /\ ParserIdle /\ AggIdle

\* README.md as its author wrote it, before the script first runs
TypeToken(t) ==
    /\ napplied = 0
    /\ Len(content) < MaxDocLen
    /\ content' = Append(content, t)
    /\ UNCHANGED <<lastArgs, napplied, before, repeated>>
    /\ UNCHANGED <<streakVars, mainVars, parserVars, aggVars>>

\* update_readme_badge(word_count, streak), lines 79-115
UpdateReadmeBadge(wc, st) ==
    /\ napplied < MaxApplied
    /\ content' = UpdatedReadme(content, wc, st)
    /\ before' = content
    /\ lastArgs' = <<wc, st>>
    /\ repeated' = (napplied >= 1 /\ lastArgs = <<wc, st>>)
    /\ napplied' = napplied + 1
    /\ UNCHANGED <<streakVars, mainVars, parserVars, aggVars>>

NextBadge ==
    \/ \E t \in Alphabet : TypeToken(t)
    \/ \E wc \in WordCounts, st \in Streaks : UpdateReadmeBadge(wc, st)

SpecBadge == InitBadge /\ [][NextBadge]_vars

\* the badges of one kind in a text
BadgesOf(c, k) == {i \in 1..Len(c) : c[i].kind = k}

\* C3: a second call of update_readme_badge with the values of the first, on
\* the document the first call wrote, leaves the document as it is.
C3_Idempotent == repeated => content = before

C3_Witness ==
    /\ repeated
    /\ napplied = 2
    /\ Cardinality(BadgesOf(content, "vocab")) = 1
    /\ Cardinality(BadgesOf(content, "streak")) = 1

\* C4: after update_readme_badge(word_count, streak) on any document, the
\* document holds exactly one vocabulary badge and exactly one streak badge,
\* each with the value just passed in.
C4_ExactlyOneBadgeEach ==
    napplied >= 1 =>
        /\ Cardinality(BadgesOf(content, "vocab")) = 1
        /\ Cardinality(BadgesOf(content, "streak")) = 1
        /\ \A i \in BadgesOf(content, "vocab") : content[i] = VocabBadge(lastArgs[1])
        /\ \A i \in BadgesOf(content, "streak") : content[i] = StreakBadge(lastArgs[2])

\* the lines of a text that hold a vocabulary badge
VocabLines(c) ==
    {i \in 1..Len(SplitLines(c)) :
        \E j \in 1..Len(SplitLines(c)[i]) : SplitLines(c)[i][j].kind = "vocab"}

\* C10: when the document has no streak badge, the call inserts the streak
\* badge as the line right after the line that holds the vocabulary badge,
\* also when an earlier line holds the label text without being the badge.
C10_StreakRightAfterVocabLine ==
    (napplied >= 1 /\ BadgesOf(before, "streak") = {}) =>
        \E i \in VocabLines(content) :
            /\ i + 1 <= Len(SplitLines(content))
            /\ SplitLines(content)[i + 1] = <<StreakBadge(lastArgs[2])>>


(***************************************************************************)
(* extract_video_id (youtube_duration_calculator.py 12-27)                 *)
(*                                                                         *)
(* A URL is a sequence of tokens: "Y" is the substring 'youtu.be/', "W"    *)
(* the substring 'youtube.com/watch', "V" the substring 'v=', "?" and "&"  *)
(* the two characters, "a" any other character.                            *)
(***************************************************************************)
UrlTokens == {"Y", "W", "V", "?", "&", "a"}

Urls == UNION {[1..n -> UrlTokens] : n \in 0..MaxUrlLen}

None == [found |-> FALSE, id |-> <<>>]

\* sep in s
Contains(s, sep) == \E i \in 1..Len(s) : s[i] = sep

\* s.split(sep)
RECURSIVE StrSplit(_, _)
StrSplit(s, sep) ==
    IF ~Contains(s, sep) THEN <<s>>
    ELSE LET p == CHOOSE i \in 1..Len(s) :
                      s[i] = sep /\ \A j \in 1..(i - 1) : s[j] # sep
         IN  <<SubSeq(s, 1, p - 1)>> \o StrSplit(SubSeq(s, p + 1, Len(s)), sep)

\* x[-1] and x[0] of a list
LastOf(x) == x[Len(x)]
FirstOf(x) == x[1]

\* line 27: video_id if video_id else None
IdOrNone(v) == IF v # <<>> THEN [found |-> TRUE, id |-> v] ELSE None

\* lines 15-27
ExtractVideoId(u) ==
    IF Contains(u, "Y")
    THEN IdOrNone(FirstOf(StrSplit(LastOf(StrSplit(u, "Y")), "?")))
    ELSE IF Contains(u, "W")
         THEN IF Contains(u, "V")
              THEN IdOrNone(FirstOf(StrSplit(LastOf(StrSplit(u, "V")), "&")))
              ELSE None
         ELSE None

InitParser ==
    /\ url \in Urls
    /\ video_id = None /\ ppc = "start"
    /\ StreakIdle /\ BadgeIdle /\ MainIdle /\ AggIdle

\* one call of extract_video_id(url)
Extract ==
    /\ ppc = "start"
    /\ video_id' = ExtractVideoId(url)
    /\ ppc' = "done"
    /\ UNCHANGED url
    /\ UNCHANGED <<streakVars, badgeVars, mainVars, aggVars>>

NextParser == Extract

SpecParser == InitParser /\ [][NextParser]_vars

\* the text of s after the first sep
AfterFirst(s, sep) ==
    LET p == CHOOSE i \in 1..Len(s) :
                 s[i] = sep /\ \A j \in 1..(i - 1) : s[j] # sep
    IN  SubSeq(s, p + 1, Len(s))

\* the text of s up to, and without, the first stop
UpTo(s, stop) ==
    IF ~Contains(s, stop) THEN s
    ELSE LET p == CHOOSE i \in 1..Len(s) :
                      s[i] = stop /\ \A j \in 1..(i - 1) : s[j] # stop
         IN  SubSeq(s, 1, p - 1)

\* the parser the claim describes: the identifier is the text right after
\* the separator (the 'v=' parameter), up to the first '?' ('&')
ReferenceId(u) ==
    LET v == IF Contains(u, "Y") THEN UpTo(AfterFirst(u, "Y"), "?")
             ELSE IF Contains(u, "W") /\ Contains(u, "V")
                  THEN UpTo(AfterFirst(u, "V"), "&")
                  ELSE <<>>
    IN  IF v # <<>> THEN [found |-> TRUE, id |-> v] ELSE None

\* C5: extract_video_id returns, on every string, what the reference parser
\* returns: the text after 'youtu.be/' up to the first '?', or the text
\* after 'v=' of a 'youtube.com/watch' URL up to the first '&', and None for
\* every other string and for an empty identifier.
C5_MatchesReferenceParser ==
    ppc = "done" => video_id = ReferenceId(url)


(***************************************************************************)
(* get_video_duration and calculate_total_duration                         *)
(* (youtube_duration_calculator.py 30-50, 67-120)                          *)
(*                                                                         *)
(* The URL field of a CSV row is "absent" (row.get('URL') is None), the    *)
(* empty string, a string of white space, or a reference with or without   *)
(* white space around it.                                                  *)
(***************************************************************************)
RowValues == {"absent", "", " ", "a", " b "}

\* url.strip(), line 91
Strip(u) == CASE u = " " -> "" [] u = " b " -> "b" [] OTHER -> u

\* if row.get('URL'), line 82
HasUrl(v) == v # "absent" /\ v # ""

\* what ydl.extract_info does for one reference: it raises, or it returns
\* the duration of the video
Outcomes ==
    {[ok |-> FALSE, duration |-> 0]} \cup
    {[ok |-> TRUE, duration |-> d] : d \in 0..MaxDur}

\* GetVideoDuration without its try: the exception of the lookup escapes
GetVideoDurationNoCatch(o) ==
    [raised |-> ~o.ok, value |-> IF o.ok THEN o.duration ELSE 0]

\* get_video_duration, lines 41-50: the duration, or 0 when the lookup
\* raised; the function itself never raises
GetVideoDuration(o) ==
    [raised |-> FALSE, value |-> IF o.ok THEN o.duration ELSE 0]

InitAgg ==
    /\ csvRows \in UNION {[1..n -> RowValues] : n \in 0..MaxRows}
    /\ urls = <<>> /\ idx = 0 /\ total_seconds = 0
    /\ video_count = 0 /\ successful_count = 0 /\ lookups = <<>>
    /\ summarised = FALSE /\ apc = "start"
    /\ StreakIdle /\ BadgeIdle /\ MainIdle /\ ParserIdle

\* lines 80-88: read the rows; without a URL the function returns 0
AggRead ==
    /\ apc = "start"
    /\ urls' = SelectSeq(csvRows, HasUrl)
    /\ apc' = IF urls' = <<>> THEN "returned" ELSE "loop"
    /\ UNCHANGED <<csvRows, idx, total_seconds, video_count,
                   successful_count, lookups, summarised>>
    /\ UNCHANGED <<streakVars, badgeVars, mainVars, parserVars>>

\* lines 90-93: an element that is blank after strip() is passed over
AggSkipBlank ==
    /\ apc = "loop"
    /\ idx < Len(urls)
    /\ Strip(urls[idx + 1]) = ""
    /\ idx' = idx + 1
    /\ UNCHANGED <<csvRows, urls, total_seconds, video_count,
                   successful_count, lookups, summarised, apc>>
    /\ UNCHANGED <<streakVars, badgeVars, mainVars, parserVars>>

\* lines 95-101: one lookup; lines 106-108 when the call raises
AggLookup(o) ==
    /\ apc = "loop"
    /\ idx < Len(urls)
    /\ Strip(urls[idx + 1]) # ""
    /\ video_count' = video_count + 1
    /\ lookups' = Append(lookups, [url |-> Strip(urls[idx + 1]), outcome |-> o])
    /\ LET r == GetVideoDuration(o) IN
         IF r.raised
         THEN /\ apc' = "returned"
              /\ UNCHANGED <<idx, total_seconds, successful_count>>
         ELSE /\ idx' = idx + 1
              /\ apc' = apc
              /\ IF r.value > 0
                 THEN /\ total_seconds' = total_seconds + r.value
                      /\ successful_count' = successful_count + 1
                 ELSE UNCHANGED <<total_seconds, successful_count>>
    /\ UNCHANGED <<csvRows, urls, summarised>>
    /\ UNCHANGED <<streakVars, badgeVars, mainVars, parserVars>>

\* lines 110-120: the summary
AggSummary ==
    /\ apc = "loop"
    /\ idx = Len(urls)
    /\ summarised' = TRUE
    /\ apc' = "returned"
    /\ UNCHANGED <<csvRows, urls, idx, total_seconds, video_count,
                   successful_count, lookups>>
    /\ UNCHANGED <<streakVars, badgeVars, mainVars, parserVars>>

NextAgg ==
    \/ AggRead
    \/ AggSkipBlank
    \/ \E o \in Outcomes : AggLookup(o)
    \/ AggSummary

SpecAgg == InitAgg /\ [][NextAgg]_vars

\* the function runs on one thread and every step of it terminates
FairSpecAgg == SpecAgg /\ WF_vars(NextAgg)

\* the lookups that succeeded, and the sum of their durations
Succeeded(ls) == {i \in 1..Len(ls) : ls[i].outcome.ok}

RECURSIVE SumDurations(_)
SumDurations(ls) ==
    IF ls = <<>> THEN 0
    ELSE (IF Head(ls).outcome.ok THEN Head(ls).outcome.duration ELSE 0)
         + SumDurations(Tail(ls))

\* C6: at the summary, total_seconds is the sum of the durations of the
\* lookups that succeeded, successful_count their number (a lookup that
\* returned 0 included), video_count the number of lookups, and the failure
\* count video_count - successful_count the number of lookups that failed.
C6_TotalsMatchOutcomes ==
    summarised =>
        /\ total_seconds = SumDurations(lookups)
        /\ successful_count = Cardinality(Succeeded(lookups))
        /\ video_count = Len(lookups)
        /\ video_count - successful_count
               = Len(lookups) - Cardinality(Succeeded(lookups))

\* the references of a list that are not blank, stripped, in order
RECURSIVE NonBlank(_)
NonBlank(us) ==
    IF us = <<>> THEN <<>>
    ELSE (IF Strip(Head(us)) = "" THEN <<>> ELSE <<Strip(Head(us))>>)
         \o NonBlank(Tail(us))

LookedUp == [i \in 1..Len(lookups) |-> lookups[i].url]

IsPrefix(a, b) == Len(a) <= Len(b) /\ a = SubSeq(b, 1, Len(a))

\* C7 as stated: every non-blank reference is looked up once and in input
\* order whatever the earlier lookups did, and the batch always reaches the
\* summary.
C7_Original ==
    apc = "returned" => (summarised /\ LookedUp = NonBlank(urls))

\* C7 as amended: every non-blank reference is looked up once and in input
\* order whatever the earlier lookups did, the function always returns, and
\* when the list of references is not empty it returns through the summary.
C7_AllLookedUpInOrder ==
    /\ [](IsPrefix(LookedUp, NonBlank(urls)))
    /\ []((apc = "returned" /\ urls # <<>>) =>
              (summarised /\ LookedUp = NonBlank(urls)))
    /\ <>(apc = "returned")

C7_Witness ==
    /\ apc = "returned"
    /\ summarised
    /\ Len(lookups) >= 2
    /\ ~lookups[1].outcome.ok
    /\ LookedUp = NonBlank(urls)


(***************************************************************************)
(* get_seen_words_count and main (update_vocabulary.py 10-35, 118-127)     *)
(*                                                                         *)
(* main runs get_seen_words_count, get_current_streak and                  *)
(* update_readme_badge inside one try; every exception leads to the        *)
(* handler of lines 124-126.  The environment decides, at the step that    *)
(* asks, which collection files exist, whether the deck is there, what     *)
(* the cards hold, whether the query and the README can be read.           *)
(***************************************************************************)
\* the three places probed at lines 11-15 and 39-43
CandidatePaths == {"AppData", "local", "Library"}

\* lines 11-17: the path that is opened exists iff one of the three does
CollectionFound(existing) == existing \cap CandidatePaths # {}

\* a card is its repetition counter; -1 stands for a card whose
\* col.get_card raises
CardReps == {-1, 0, 1}

Decks == UNION {[1..n -> CardReps] : n \in 0..MaxCards}

\* DeckMissing with the test left out: the result of col.decks.id is ignored
DeckNeverMissing(deck_id) == FALSE

\* if not deck_id, line 23
DeckMissing(deck_id) == deck_id = 0

\* lines 27-32
SeenCount(cards) == Cardinality({i \in 1..Len(cards) : cards[i] > 0})

\* README.md as main may find it
Readmes ==
    { <<Txt>>,
      <<Kw, NL, NL, VocabBadge(1), NL, StreakBadge(0)>> }

InitMain ==
    /\ mpc = "seen_path" /\ ret = -1 /\ word_count = 0
    /\ opens = 0 /\ closes = 0 /\ failure = "none" /\ faults = {}
    /\ content \in Readmes
    /\ readme0 = content
    /\ lastArgs = <<0, 0>> /\ napplied = 0 /\ before = <<>> /\ repeated = FALSE
    /\ activity \in SUBSET Days
    /\ today \in Days
    /\ rows = <<>> /\ streak = 0 /\ spc = "idle"
    /\ ParserIdle /\ AggIdle

\* get_seen_words_count, lines 11-18
SeenPath ==
    /\ mpc = "seen_path"
    /\ \E existing \in SUBSET CandidatePaths :
         IF CollectionFound(existing)
         THEN /\ mpc' = "seen_open"
              /\ UNCHANGED <<failure, faults>>
         ELSE /\ mpc' = "except"
              /\ failure' = "FileNotFoundError"
              /\ faults' = faults \cup {"no_file"}
    /\ UNCHANGED <<ret, word_count, opens, closes, readme0>>
    /\ UNCHANGED <<streakVars, badgeVars, parserVars, aggVars>>

\* get_seen_words_count, lines 20-24
SeenOpen ==
    /\ mpc = "seen_open"
    /\ opens' = opens + 1
    /\ \E deck_id \in {0, 1} :
         /\ faults' = IF deck_id = 0 THEN faults \cup {"no_deck"} ELSE faults
         /\ IF DeckMissing(deck_id)
            THEN /\ mpc' = "except"
                 /\ failure' = "ValueError"
            ELSE /\ mpc' = "seen_count"
                 /\ UNCHANGED failure
    /\ UNCHANGED <<ret, word_count, closes, readme0>>
    /\ UNCHANGED <<streakVars, badgeVars, parserVars, aggVars>>

\* get_seen_words_count, lines 26-35
SeenCards ==
    /\ mpc = "seen_count"
    /\ \E cards \in Decks :
         IF \E i \in 1..Len(cards) : cards[i] = -1
         THEN /\ mpc' = "except"
              /\ failure' = "CardError"
              /\ faults' = faults \cup {"card_error"}
              /\ UNCHANGED <<word_count, closes>>
         ELSE /\ word_count' = SeenCount(cards)
              /\ closes' = closes + 1
              /\ mpc' = "streak_path"
              /\ UNCHANGED <<failure, faults>>
    /\ UNCHANGED <<ret, opens, readme0>>
    /\ UNCHANGED <<streakVars, badgeVars, parserVars, aggVars>>

\* get_current_streak, lines 39-46
StreakPath ==
    /\ mpc = "streak_path"
    /\ \E existing \in SUBSET CandidatePaths :
         IF CollectionFound(existing)
         THEN /\ mpc' = "streak_query"
              /\ UNCHANGED <<failure, faults>>
         ELSE /\ mpc' = "except"
              /\ failure' = "FileNotFoundError"
              /\ faults' = faults \cup {"no_file"}
    /\ UNCHANGED <<ret, word_count, opens, closes, readme0>>
    /\ UNCHANGED <<streakVars, badgeVars, parserVars, aggVars>>

\* get_current_streak, lines 48-58
MainStreakQuery ==
    /\ mpc = "streak_query"
    /\ opens' = opens + 1
    /\ \E queryRaises \in BOOLEAN :
         IF queryRaises
         THEN /\ mpc' = "except"
              /\ failure' = "DBError"
              /\ faults' = faults \cup {"query_error"}
              /\ UNCHANGED <<rows, closes>>
         ELSE /\ rows' = RevlogQuery(activity)
              /\ closes' = closes + 1
              /\ mpc' = "streak_count"
              /\ UNCHANGED <<failure, faults>>
    /\ UNCHANGED <<ret, word_count, readme0>>
    /\ UNCHANGED <<activity, today, streak, spc>>
    /\ UNCHANGED <<badgeVars, parserVars, aggVars>>

\* get_current_streak, lines 60-76
MainStreakCount ==
    /\ mpc = "streak_count"
    /\ streak' = StreakOf(rows, today)
    /\ mpc' = "update"
    /\ UNCHANGED <<ret, word_count, opens, closes, failure, faults, readme0>>
    /\ UNCHANGED <<activity, today, rows, spc>>
    /\ UNCHANGED <<badgeVars, parserVars, aggVars>>

\* main, lines 122-123 and 127: update_readme_badge, then return 0
MainUpdate ==
    /\ mpc = "update"
    /\ \E readable \in BOOLEAN :
         IF readable
         THEN /\ content' = UpdatedReadme(content, word_count, streak)
              /\ before' = content
              /\ lastArgs' = <<word_count, streak>>
              /\ repeated' = FALSE
              /\ napplied' = napplied + 1
              /\ ret' = 0
              /\ mpc' = "returned"
              /\ UNCHANGED <<failure, faults>>
         ELSE /\ mpc' = "except"
              /\ failure' = "OSError"
              /\ faults' = faults \cup {"readme_error"}
              /\ UNCHANGED <<ret, badgeVars>>
    /\ UNCHANGED <<word_count, opens, closes, readme0>>
    /\ UNCHANGED <<streakVars, parserVars, aggVars>>

\* main, lines 124-126
MainExcept ==
    /\ mpc = "except"
    /\ ret' = 1
    /\ mpc' = "returned"
    /\ UNCHANGED <<word_count, opens, closes, failure, faults, readme0>>
    /\ UNCHANGED <<streakVars, badgeVars, parserVars, aggVars>>

NextMain ==
    \/ SeenPath
    \/ SeenOpen
    \/ SeenCards
    \/ StreakPath
    \/ MainStreakQuery
    \/ MainStreakCount
    \/ MainUpdate
    \/ MainExcept

SpecMain == InitMain /\ [][NextMain]_vars

\* C8: when the datastore file is not found or the deck is missing, main
\* returns 1 and update_readme_badge is never invoked, so README.md stays as
\* it was; main returns 0 only after both reads succeeded and README.md was
\* written.
C8_FatalErrorsLeaveReadme ==
    /\ (faults \cap {"no_file", "no_deck"} # {}) =>
           /\ napplied = 0
           /\ content = readme0
           /\ mpc \in {"except", "returned"}
           /\ mpc = "returned" => ret = 1
    /\ (mpc = "returned" /\ ret = 0) =>
           /\ faults = {}
           /\ opens = 2 /\ closes = 2
           /\ napplied = 1
           /\ content = UpdatedReadme(readme0, word_count, streak)

C8_Witness ==
    /\ mpc = "returned"
    /\ ret = 1
    /\ "no_deck" \in faults
    /\ napplied = 0

\* C9: every collection opened by get_seen_words_count or
\* get_current_streak is closed exactly once on every exit path, the
\* missing deck and a raising lookup or query included; no execution ends
\* with a collection still open.
C9_EveryCollectionClosed ==
    /\ closes <= opens
    /\ mpc = "returned" => closes = opens

====
